---- MODULE Spec2Model ----
(***************************************************************************)
(* Model of the structural diff and patch-replay engine of                 *)
(* src/uxar/src/db/migrations.rs (Entity, Diffable, DiffEngine, Patch).    *)
(*                                                                         *)
(* Conventions                                                             *)
(*   - arena indices are 0-based as in the source; the arena is a sequence *)
(*     and index ix lives at diffable_arena[ix + 1] (see Get).             *)
(*   - Option<T> is a sequence: None == <<>>, Some(x) == <<x>>.            *)
(*   - a StableHashMap<K, V> is a function whose DOMAIN is its key set.    *)
(*   - StableHasher (XxHash64, seed 27) is taken to be collision free: a   *)
(*     key is the sequence of strings written to the hasher (each          *)
(*     str::hash writes its bytes and a 0xff terminator, so the stream is  *)
(*     exactly that sequence).                                             *)
(*   - Patch::Modify.deletions is a Vec filled in the iteration order of a *)
(*     hash map and only ever iterated to remove keys; it is kept as the   *)
(*     set of its elements.                                                *)
(***************************************************************************)
EXTENDS Integers, Sequences, FiniteSets, TLC

VARIABLES
    diffable_arena,        \* DiffEngine.diffable_arena : Vec<Diffable>
    last_state,            \* DiffEngine.last_state : id -> index
    current_state,         \* DiffEngine.current_state : id -> index
    last_root_indexes,     \* DiffEngine.last_root_indexes : Vec<usize>
    current_root_indexes,  \* DiffEngine.current_root_indexes : Vec<usize>
    ret,                   \* what the last call returned
    pc,                    \* position of the caller's script
    inL,                   \* the forest handed to load_last_state
    inC,                   \* the forest handed to load_current_state
    pending,               \* patches of the first diff() still to replay
    errs                   \* results of the patch() calls of the replay

engine == <<diffable_arena, last_state, current_state,
            last_root_indexes, current_root_indexes>>
vars == <<diffable_arena, last_state, current_state, last_root_indexes,
          current_root_indexes, ret, pc, inL, inC, pending, errs>>

-----------------------------------------------------------------------------
(* Bounds of the model *)

\* most entities in one forest or New patch of the free-running caller
MaxLoad == 2
\* most arena slots the free-running caller may fill
MaxArena == 3
\* longest extras sequence of the content inputs
MaxExtras == 2
\* most entities in the first and in the second forest of the two-load script
MaxFirst == 1
MaxDeep == 4

-----------------------------------------------------------------------------
(* Generic helpers *)

None == <<>>
Some(x) == <<x>>

EmptyMap == [k \in {} |-> ""]
MapInsert(m, k, v) == [x \in (DOMAIN m) \cup {k} |-> IF x = k THEN v ELSE m[x]]
MapRemove(m, k) == [x \in (DOMAIN m) \ {k} |-> m[x]]

\* Vec::retain(|&ix| ix != index)
Retain(s, index) == SelectSeq(s, LAMBDA ix : ix # index)

RECURSIVE Flatten(_)
Flatten(ss) == IF ss = <<>> THEN <<>> ELSE Head(ss) \o Flatten(Tail(ss))

-----------------------------------------------------------------------------
(* DiffError *)

Ok == [err |-> "Ok"]
DuplicateEntity(name, role) == [err |-> "DuplicateEntity", name |-> name, role |-> role]
MissingFromArena(id) == [err |-> "MissingFromArena", id |-> id]
EntityNotFound(name, role) == [err |-> "EntityNotFound", name |-> name, role |-> role]

-----------------------------------------------------------------------------
(* StableHasher and the keys of an Entity *)

\* the value of finish() after the strings of `tokens` were hashed in order
StableHash(tokens) == tokens

separator == "|--|"

\* every attribute key of the model, in the order of String's Ord
AttrKeyOrder == <<"j", "k">>

\* keys.sort() over attrs.keys()
SortedKeys(attrs) == SelectSeq(AttrKeyOrder, LAMBDA k : k \in DOMAIN attrs)

\* a variant of make_name_key: only the role is hashed
make_name_key_role_only(name, role) == StableHash(<<role>>)

\* the place of an attribute key in String's Ord
KeyRank(k) == CHOOSE i \in 1..Len(AttrKeyOrder) : AttrKeyOrder[i] = k

\* a variant of keys_sort: the keys stay in the order the map yields them
keys_unsorted(keys) == keys

\* keys.sort() over the Vec collected from attrs.keys()
RECURSIVE keys_sort(_)
keys_sort(keys) ==
    IF keys = <<>> THEN <<>>
    ELSE LET rest == keys_sort(Tail(keys))
             before == SelectSeq(rest, LAMBDA k : KeyRank(k) < KeyRank(Head(keys)))
             after  == SelectSeq(rest, LAMBDA k : KeyRank(k) >= KeyRank(Head(keys)))
         IN  before \o <<Head(keys)>> \o after

make_name_key(name, role) == StableHash(<<name, role>>)
name_key(ent) == make_name_key(ent.name, ent.role)
role_key(ent) == StableHash(<<ent.role>>)
type_key(ent) == StableHash(<<ent.type_name>>)

\* every extra of the model, in the order of String's Ord
ExtraOrder == <<"e", "f">>

\* a variant of identity_key: the extras are hashed in sorted order
identity_key_sorting_extras(ent) ==
    LET keys   == SortedKeys(ent.attrs)
        extras == Flatten([i \in 1..Len(ExtraOrder) |->
                              SelectSeq(ent.extras, LAMBDA x : x = ExtraOrder[i])])
    IN  StableHash(
            <<ent.type_name, separator, ent.role, separator>>
            \o Flatten([i \in 1..Len(keys) |->
                           <<keys[i], separator, ent.attrs[keys[i]], separator>>])
            \o <<separator>>
            \o Flatten([i \in 1..Len(extras) |-> <<separator, extras[i]>>])
            \o <<separator>>)

identity_key(ent) ==
    LET keys == SortedKeys(ent.attrs)
    IN  StableHash(
            <<ent.type_name, separator, ent.role, separator>>
            \o Flatten([i \in 1..Len(keys) |->
                           <<keys[i], separator, ent.attrs[keys[i]], separator>>])
            \o <<separator>>
            \o Flatten([i \in 1..Len(ent.extras) |-> <<separator, ent.extras[i]>>])
            \o <<separator>>)

\* identity_key when attrs.keys() yields the keys in the order `iteration`
identity_key_iterating(ent, iteration) ==
    LET keys == keys_sort(iteration)
    IN  StableHash(
            <<ent.type_name, separator, ent.role, separator>>
            \o Flatten([i \in 1..Len(keys) |->
                           <<keys[i], separator, ent.attrs[keys[i]], separator>>])
            \o <<separator>>
            \o Flatten([i \in 1..Len(ent.extras) |-> <<separator, ent.extras[i]>>])
            \o <<separator>>)

-----------------------------------------------------------------------------
(* The arena *)

InArena(arena, ix) == ix >= 0 /\ ix < Len(arena)
\* Vec::get(ix) for an index that is in range
Get(arena, ix) == arena[ix + 1]

\* a variant of NextIndex: the index is read after the push
NextIndexAfterPush(arena) == Len(arena) + 1

\* let index = arena.len()
NextIndex(arena) == Len(arena)

\* a variant of MakeDiffable: identity_key also hashes the parent link
MakeDiffableParentKeyed(ent, index, parent_index) ==
    [ index            |-> index,
      id               |-> name_key(ent),
      role_key         |-> role_key(ent),
      identity_key     |-> StableHash(identity_key(ent) \o
                               (IF parent_index = None THEN <<"None">>
                                ELSE <<ToString(parent_index[1])>>)),
      type_key         |-> type_key(ent),
      parent_index     |-> parent_index,
      children_indexes |-> <<>>,
      entity           |-> ent ]

\* a variant of MakeDiffable: the node does not record its parent
MakeDiffableUnparented(ent, index, parent_index) ==
    [ index            |-> index,
      id               |-> name_key(ent),
      role_key         |-> role_key(ent),
      identity_key     |-> identity_key(ent),
      type_key         |-> type_key(ent),
      parent_index     |-> None,
      children_indexes |-> <<>>,
      entity           |-> ent ]

\* the Diffable built for `ent` (its children already taken out)
MakeDiffable(ent, index, parent_index) ==
    [ index            |-> index,
      id               |-> name_key(ent),
      role_key         |-> role_key(ent),
      identity_key     |-> identity_key(ent),
      type_key         |-> type_key(ent),
      parent_index     |-> parent_index,
      children_indexes |-> <<>>,
      entity           |-> ent ]

\* a variant of PushChild: the index is put in front of the parent's children
PushChildFront(arena, parent_index, index) ==
    IF parent_index # None /\ InArena(arena, parent_index[1])
    THEN [arena EXCEPT ![parent_index[1] + 1].children_indexes = <<index>> \o @]
    ELSE arena

\* parent.children_indexes.push(index), skipped when the parent slot is absent
PushChild(arena, parent_index, index) ==
    IF parent_index # None /\ InArena(arena, parent_index[1])
    THEN [arena EXCEPT ![parent_index[1] + 1].children_indexes = Append(@, index)]
    ELSE arena

\* a variant of load_state: the children of an entity go to the front of the
\* work queue
RECURSIVE load_state_depth_first(_, _, _, _)
load_state_depth_first(stack, arena, state, root_indexes) ==
    IF stack = <<>>
    THEN [arena |-> arena, state |-> state, root_indexes |-> root_indexes, res |-> Ok]
    ELSE
      LET parent_index == Head(stack).parent
          children     == Head(stack).ent.children
          ent          == [Head(stack).ent EXCEPT !.children = <<>>]
          index        == NextIndex(arena)
          id           == name_key(ent)
      IN  IF id \in DOMAIN state
          THEN [arena |-> arena, state |-> state, root_indexes |-> root_indexes,
                res |-> DuplicateEntity(ent.name, ent.role)]
          ELSE
            LET node   == MakeDiffable(ent, index, parent_index)
                state1 == MapInsert(state, id, index)
                arena1 == Append(arena, node)
                roots1 == IF parent_index = None
                          THEN Append(root_indexes, index) ELSE root_indexes
                stack1 == [i \in 1..Len(children) |->
                              [parent |-> Some(index), ent |-> children[i]]]
                          \o Tail(stack)
                arena2 == PushChild(arena1, parent_index, index)
            IN  load_state_depth_first(stack1, arena2, state1, roots1)

\* DiffEngine::load_state: the work queue holds (parent_index, entity) pairs.
\* The result carries the arena, the target map and the target root list as
\* the call leaves them, also when it returns early with an error.
RECURSIVE load_state(_, _, _, _)
load_state(stack, arena, state, root_indexes) ==
    IF stack = <<>>
    THEN [arena |-> arena, state |-> state, root_indexes |-> root_indexes, res |-> Ok]
    ELSE
      LET parent_index == Head(stack).parent
          children     == Head(stack).ent.children
          ent          == [Head(stack).ent EXCEPT !.children = <<>>]
          index        == NextIndex(arena)
          id           == name_key(ent)
      IN  IF id \in DOMAIN state
          THEN [arena |-> arena, state |-> state, root_indexes |-> root_indexes,
                res |-> DuplicateEntity(ent.name, ent.role)]
          ELSE
            LET node   == MakeDiffable(ent, index, parent_index)
                state1 == MapInsert(state, id, index)
                arena1 == Append(arena, node)
                roots1 == IF parent_index = None
                          THEN Append(root_indexes, index) ELSE root_indexes
                stack1 == Tail(stack) \o
                          [i \in 1..Len(children) |->
                              [parent |-> Some(index), ent |-> children[i]]]
                arena2 == PushChild(arena1, parent_index, index)
            IN  load_state(stack1, arena2, state1, roots1)

\* VecDeque::from_iter(entities.into_iter().map(|n| (parent_index, n)))
InitialQueue(entities, parent_index) ==
    [i \in 1..Len(entities) |-> [parent |-> parent_index, ent |-> entities[i]]]

\* a variant of delete_walk: the children of a popped node are not pushed
RECURSIVE delete_walk_shallow(_, _, _)
delete_walk_shallow(stack, arena, state) ==
    IF stack = <<>>
    THEN [state |-> state, res |-> Ok]
    ELSE
      LET ix   == stack[Len(stack)]
          rest == SubSeq(stack, 1, Len(stack) - 1)
      IN  IF InArena(arena, ix)
          THEN delete_walk_shallow(rest, arena, MapRemove(state, Get(arena, ix).id))
          ELSE [state |-> state, res |-> MissingFromArena(ix)]

\* the walk of delete_subtree: pops the stack, pushes the children, removes the id
RECURSIVE delete_walk(_, _, _)
delete_walk(stack, arena, state) ==
    IF stack = <<>>
    THEN [state |-> state, res |-> Ok]
    ELSE
      LET ix   == stack[Len(stack)]
          rest == SubSeq(stack, 1, Len(stack) - 1)
      IN  IF InArena(arena, ix)
          THEN delete_walk(rest \o Get(arena, ix).children_indexes, arena,
                           MapRemove(state, Get(arena, ix).id))
          ELSE [state |-> state, res |-> MissingFromArena(ix)]

\* a variant of delete_subtree: the deleted slot is also taken out of the arena
delete_subtree_compacting(arena, state, root_indexes, index) ==
    IF ~InArena(arena, index)
    THEN [arena |-> arena, state |-> state, root_indexes |-> root_indexes,
          res |-> MissingFromArena(index)]
    ELSE
      LET parent_index == Get(arena, index).parent_index
          arena1 == IF parent_index # None /\ InArena(arena, parent_index[1])
                    THEN [arena EXCEPT ![parent_index[1] + 1].children_indexes =
                                           Retain(@, index)]
                    ELSE arena
          roots1 == IF parent_index = None
                    THEN Retain(root_indexes, index) ELSE root_indexes
          walk   == delete_walk(<<index>>, arena1, state)
      IN  [arena |-> SubSeq(arena1, 1, index) \o SubSeq(arena1, index + 2, Len(arena1)),
           state |-> walk.state, root_indexes |-> roots1, res |-> walk.res]

\* a variant of delete_subtree: the index stays in its parent's children and
\* in the root list
delete_subtree_keeping_link(arena, state, root_indexes, index) ==
    IF ~InArena(arena, index)
    THEN [arena |-> arena, state |-> state, root_indexes |-> root_indexes,
          res |-> MissingFromArena(index)]
    ELSE
      LET walk == delete_walk(<<index>>, arena, state)
      IN  [arena |-> arena, state |-> walk.state, root_indexes |-> root_indexes,
           res |-> walk.res]

\* DiffEngine::delete_subtree on (arena, last_state, last_root_indexes)
delete_subtree(arena, state, root_indexes, index) ==
    IF ~InArena(arena, index)
    THEN [arena |-> arena, state |-> state, root_indexes |-> root_indexes,
          res |-> MissingFromArena(index)]
    ELSE
      LET parent_index == Get(arena, index).parent_index
          arena1 == IF parent_index # None /\ InArena(arena, parent_index[1])
                    THEN [arena EXCEPT ![parent_index[1] + 1].children_indexes =
                                           Retain(@, index)]
                    ELSE arena
          roots1 == IF parent_index = None
                    THEN Retain(root_indexes, index) ELSE root_indexes
          walk   == delete_walk(<<index>>, arena1, state)
      IN  [arena |-> arena1, state |-> walk.state, root_indexes |-> roots1,
           res |-> walk.res]

-----------------------------------------------------------------------------
(* Patch *)

PatchNew(entity, parent) == [kind |-> "New", entity |-> entity, parent |-> parent]
PatchDelete(name, role) == [kind |-> "Delete", name |-> name, role |-> role]
PatchModify(name, role, new_name, new_type_name, modifications, deletions, extras) ==
    [kind |-> "Modify", name |-> name, role |-> role, new_name |-> new_name,
     new_type_name |-> new_type_name, modifications |-> modifications,
     deletions |-> deletions, extras |-> extras]

-----------------------------------------------------------------------------
(* DiffEngine::patch.  An engine value `e` is the record of the five fields; *)
(* the result is the engine as the call leaves it and the value returned.    *)

Engine(arena, lstate, cstate, lroots, croots) ==
    [arena |-> arena, last_state |-> lstate, current_state |-> cstate,
     last_root_indexes |-> lroots, current_root_indexes |-> croots]

\* a variant of ApplyModify: the deletions are applied before the modifications
ApplyModifyDeletingFirst(entity, op) ==
    LET named == IF op.new_name # None
                 THEN [entity EXCEPT !.name = op.new_name[1]] ELSE entity
        typed == IF op.new_type_name # None
                 THEN [named EXCEPT !.type_name = op.new_type_name[1]] ELSE named
        kept  == (DOMAIN typed.attrs) \ op.deletions
        attrs1 == [k \in kept \cup (DOMAIN op.modifications) |->
                      IF k \in DOMAIN op.modifications
                      THEN op.modifications[k] ELSE typed.attrs[k]]
    IN  [typed EXCEPT !.attrs = attrs1, !.extras = op.extras]

\* the entity of a node after the assignments of the Modify arm
ApplyModify(entity, op) ==
    LET named == IF op.new_name # None
                 THEN [entity EXCEPT !.name = op.new_name[1]] ELSE entity
        typed == IF op.new_type_name # None
                 THEN [named EXCEPT !.type_name = op.new_type_name[1]] ELSE named
        attrs1 == [k \in (DOMAIN typed.attrs) \cup (DOMAIN op.modifications) |->
                      IF k \in DOMAIN op.modifications
                      THEN op.modifications[k] ELSE typed.attrs[k]]
        attrs2 == [k \in (DOMAIN attrs1) \ op.deletions |-> attrs1[k]]
    IN  [typed EXCEPT !.attrs = attrs2, !.extras = op.extras]

\* a variant of Rekey: the node keeps the id it had before the Modify
RekeyKeepingId(diffable, entity) ==
    [diffable EXCEPT !.entity = entity,
                     !.identity_key = identity_key(entity),
                     !.type_key = type_key(entity)]

\* the node after the Modify arm recomputed its keys
Rekey(diffable, entity) ==
    [diffable EXCEPT !.entity = entity,
                     !.id = name_key(entity),
                     !.identity_key = identity_key(entity),
                     !.type_key = type_key(entity)]

patch_delete(e, op) ==
    LET id == make_name_key(op.name, op.role)
    IN  IF id \in DOMAIN e.last_state
        THEN LET d == delete_subtree(e.arena, e.last_state, e.last_root_indexes,
                                     e.last_state[id])
             IN  [e |-> [e EXCEPT !.arena = d.arena, !.last_state = d.state,
                                  !.last_root_indexes = d.root_indexes],
                  res |-> d.res]
        ELSE [e |-> e, res |-> EntityNotFound(op.name, op.role)]

\* a variant of patch_modify: a registered new id is a duplicate also when it
\* is the subject's own id
patch_modify_strict(e, op) ==
    LET id     == make_name_key(op.name, op.role)
        new_id == IF op.new_name # None
                  THEN make_name_key(op.new_name[1], op.role) ELSE id
    IN  IF new_id \in DOMAIN e.last_state /\ op.new_name # None
        THEN [e |-> e, res |-> DuplicateEntity(op.new_name[1], op.role)]
        ELSE IF id \in DOMAIN e.last_state
        THEN LET index   == e.last_state[id]
                 removed == MapRemove(e.last_state, id)
                 diffable == Rekey(Get(e.arena, index),
                                   ApplyModify(Get(e.arena, index).entity, op))
             IN  [e |-> [e EXCEPT !.arena = [@ EXCEPT ![index + 1] = diffable],
                                  !.last_state = MapInsert(removed, diffable.id, index)],
                  res |-> Ok]
        ELSE [e |-> e, res |-> EntityNotFound(op.name, op.role)]

patch_modify(e, op) ==
    LET id     == make_name_key(op.name, op.role)
        new_id == IF op.new_name # None
                  THEN make_name_key(op.new_name[1], op.role) ELSE id
    IN  IF new_id \in DOMAIN e.last_state /\ new_id # id
        THEN [e |-> e, res |-> DuplicateEntity(op.new_name[1], op.role)]
        ELSE IF id \in DOMAIN e.last_state
        THEN LET index   == e.last_state[id]
                 removed == MapRemove(e.last_state, id)
             IN  IF InArena(e.arena, index)
                 THEN LET diffable == Rekey(Get(e.arena, index),
                                            ApplyModify(Get(e.arena, index).entity, op))
                      IN  [e |-> [e EXCEPT !.arena = [@ EXCEPT ![index + 1] = diffable],
                                           !.last_state =
                                               MapInsert(removed, diffable.id, index)],
                           res |-> Ok]
                 ELSE [e |-> [e EXCEPT !.last_state = removed],
                       res |-> MissingFromArena(index)]
        ELSE [e |-> e, res |-> EntityNotFound(op.name, op.role)]

\* a variant of load_current_state: an id registered in either state is a
\* duplicate
load_current_state_shared(e, entities) ==
    LET both == [id \in (DOMAIN e.last_state) \cup (DOMAIN e.current_state) |-> 0]
        seen == load_state(InitialQueue(entities, None), e.arena, both, <<>>)
        l    == load_state(InitialQueue(entities, None),
                           e.arena, e.current_state, e.current_root_indexes)
    IN  [e |-> [e EXCEPT !.arena = l.arena, !.current_state = l.state,
                         !.current_root_indexes = l.root_indexes],
         res |-> IF seen.res.err # "Ok" THEN seen.res ELSE l.res]

\* a variant of patch_new: the subtree is loaded into the current half
patch_new_into_current(e, op) ==
    LET node_id == make_name_key(op.parent[1][1], op.parent[1][2])
    IN  IF op.parent # None /\ node_id \notin DOMAIN e.last_state
        THEN [e |-> e, res |-> EntityNotFound(op.parent[1][1], op.parent[1][2])]
        ELSE LET parent_index == IF op.parent # None
                                 THEN Some(e.last_state[node_id]) ELSE None
                 l == load_state(InitialQueue(<<op.entity>>, parent_index),
                                 e.arena, e.current_state, e.current_root_indexes)
             IN  [e |-> [e EXCEPT !.arena = l.arena, !.current_state = l.state,
                                  !.current_root_indexes = l.root_indexes],
                  res |-> l.res]

\* a variant of patch_new: a parent that last_state lacks is looked up in
\* current_state
patch_new_any_parent(e, op) ==
    LET node_id == make_name_key(op.parent[1][1], op.parent[1][2])
        known   == [id \in (DOMAIN e.last_state) \cup (DOMAIN e.current_state) |->
                       IF id \in DOMAIN e.last_state
                       THEN e.last_state[id] ELSE e.current_state[id]]
    IN  IF op.parent # None /\ node_id \notin DOMAIN known
        THEN [e |-> e, res |-> EntityNotFound(op.parent[1][1], op.parent[1][2])]
        ELSE LET parent_index == IF op.parent # None
                                 THEN Some(known[node_id]) ELSE None
                 l == load_state(InitialQueue(<<op.entity>>, parent_index),
                                 e.arena, e.last_state, e.last_root_indexes)
             IN  [e |-> [e EXCEPT !.arena = l.arena, !.last_state = l.state,
                                  !.last_root_indexes = l.root_indexes],
                  res |-> l.res]

patch_new(e, op) ==
    LET node_id == make_name_key(op.parent[1][1], op.parent[1][2])
    IN  IF op.parent # None /\ node_id \notin DOMAIN e.last_state
        THEN [e |-> e, res |-> EntityNotFound(op.parent[1][1], op.parent[1][2])]
        ELSE LET parent_index == IF op.parent # None
                                 THEN Some(e.last_state[node_id]) ELSE None
                 l == load_state(InitialQueue(<<op.entity>>, parent_index),
                                 e.arena, e.last_state, e.last_root_indexes)
             IN  [e |-> [e EXCEPT !.arena = l.arena, !.last_state = l.state,
                                  !.last_root_indexes = l.root_indexes],
                  res |-> l.res]

patch(e, op) ==
    CASE op.kind = "Delete" -> patch_delete(e, op)
      [] op.kind = "Modify" -> patch_modify(e, op)
      [] op.kind = "New"    -> patch_new(e, op)

\* a variant of load_last_state: the call starts the current half afresh
load_last_state_fresh_current(e, entities) ==
    LET l == load_state(InitialQueue(entities, None),
                        e.arena, e.last_state, e.last_root_indexes)
    IN  [e |-> [e EXCEPT !.arena = l.arena, !.last_state = l.state,
                         !.last_root_indexes = l.root_indexes,
                         !.current_state = EmptyMap,
                         !.current_root_indexes = <<>>],
         res |-> l.res]

load_last_state(e, entities) ==
    LET l == load_state(InitialQueue(entities, None),
                        e.arena, e.last_state, e.last_root_indexes)
    IN  [e |-> [e EXCEPT !.arena = l.arena, !.last_state = l.state,
                         !.last_root_indexes = l.root_indexes],
         res |-> l.res]

\* a variant of load_current_state: the new roots are listed among the last
\* roots
load_current_state_rooting_last(e, entities) ==
    LET l == load_state(InitialQueue(entities, None),
                        e.arena, e.current_state, e.last_root_indexes)
    IN  [e |-> [e EXCEPT !.arena = l.arena, !.current_state = l.state,
                         !.last_root_indexes = l.root_indexes],
         res |-> l.res]

load_current_state(e, entities) ==
    LET l == load_state(InitialQueue(entities, None),
                        e.arena, e.current_state, e.current_root_indexes)
    IN  [e |-> [e EXCEPT !.arena = l.arena, !.current_state = l.state,
                         !.current_root_indexes = l.root_indexes],
         res |-> l.res]

-----------------------------------------------------------------------------
(* DiffEngine::diff.  get_from_arena's `?` ends the whole call at the first  *)
(* absent index: every helper returns its value together with `res`, and a   *)
(* caller stops at the first res that is not Ok.                             *)

make_delete_patch(last) == PatchDelete(last.entity.name, last.entity.role)

\* fill_entity_children: the entities of the nodes `ixs`, each with its own
\* children filled in, in the order of `ixs`
RECURSIVE fill_entity_children(_, _)
fill_entity_children(arena, ixs) ==
    IF ixs = <<>> THEN [children |-> <<>>, res |-> Ok]
    ELSE IF ~InArena(arena, Head(ixs))
    THEN [children |-> <<>>, res |-> MissingFromArena(Head(ixs))]
    ELSE
      LET child_diffable == Get(arena, Head(ixs))
          sub == fill_entity_children(arena, child_diffable.children_indexes)
      IN  IF sub.res.err # "Ok" THEN sub
          ELSE LET rest == fill_entity_children(arena, Tail(ixs))
               IN  IF rest.res.err # "Ok" THEN rest
                   ELSE [children |->
                            <<[child_diffable.entity EXCEPT !.children = sub.children]>>
                            \o rest.children,
                         res |-> Ok]

\* a variant of make_create_patch: only the direct children are filled in
make_create_patch_shallow(arena, current) ==
    IF \E i \in 1..Len(current.children_indexes) :
           ~InArena(arena, current.children_indexes[i])
    THEN [ops |-> <<>>, res |-> MissingFromArena(current.index)]
    ELSE [ops |-> <<PatchNew(
                      [current.entity EXCEPT !.children =
                          [i \in 1..Len(current.children_indexes) |->
                              Get(arena, current.children_indexes[i]).entity]],
                      IF current.parent_index # None
                      THEN Some(<<Get(arena, current.parent_index[1]).entity.name,
                                  Get(arena, current.parent_index[1]).entity.role>>)
                      ELSE None)>>,
          res |-> Ok]

\* a variant of make_create_patch: the parent is never named
make_create_patch_rootless(arena, current) ==
    LET filled == fill_entity_children(arena, current.children_indexes)
    IN  IF filled.res.err # "Ok" THEN [ops |-> <<>>, res |-> filled.res]
        ELSE [ops |-> <<PatchNew([current.entity EXCEPT !.children = filled.children],
                                 None)>>,
              res |-> Ok]

make_create_patch(arena, current) ==
    IF current.parent_index # None /\ ~InArena(arena, current.parent_index[1])
    THEN [ops |-> <<>>, res |-> MissingFromArena(current.parent_index[1])]
    ELSE
      LET parent_info ==
              IF current.parent_index # None
              THEN Some(<<Get(arena, current.parent_index[1]).entity.name,
                          Get(arena, current.parent_index[1]).entity.role>>)
              ELSE None
          filled == fill_entity_children(arena, current.children_indexes)
      IN  IF filled.res.err # "Ok" THEN [ops |-> <<>>, res |-> filled.res]
          ELSE [ops |-> <<PatchNew([current.entity EXCEPT !.children = filled.children],
                                   parent_info)>>,
                res |-> Ok]

\* a variant of make_modify_patch: no key is ever listed for deletion
make_modify_patch_no_deletions(current, last) ==
    LET cattrs == current.entity.attrs
        lattrs == last.entity.attrs
        changed == {k \in DOMAIN cattrs :
                       k \notin DOMAIN lattrs \/ lattrs[k] # cattrs[k]}
    IN  PatchModify(
            last.entity.name,
            last.entity.role,
            IF current.entity.name # last.entity.name
                THEN Some(current.entity.name) ELSE None,
            IF current.entity.type_name # last.entity.type_name
                THEN Some(current.entity.type_name) ELSE None,
            [k \in changed |-> cattrs[k]],
            {},
            current.entity.extras)

\* a variant of make_modify_patch: extras is carried only when it changed
make_modify_patch_changed_extras(current, last) ==
    LET cattrs == current.entity.attrs
        lattrs == last.entity.attrs
        changed == {k \in DOMAIN cattrs :
                       k \notin DOMAIN lattrs \/ lattrs[k] # cattrs[k]}
    IN  PatchModify(
            last.entity.name,
            last.entity.role,
            IF current.entity.name # last.entity.name
                THEN Some(current.entity.name) ELSE None,
            IF current.entity.type_name # last.entity.type_name
                THEN Some(current.entity.type_name) ELSE None,
            [k \in changed |-> cattrs[k]],
            {k \in DOMAIN lattrs : k \notin DOMAIN cattrs},
            IF current.entity.extras # last.entity.extras
                THEN current.entity.extras ELSE <<>>)

make_modify_patch(current, last) ==
    LET cattrs == current.entity.attrs
        lattrs == last.entity.attrs
        changed == {k \in DOMAIN cattrs :
                       k \notin DOMAIN lattrs \/ lattrs[k] # cattrs[k]}
    IN  PatchModify(
            last.entity.name,
            last.entity.role,
            IF current.entity.name # last.entity.name
                THEN Some(current.entity.name) ELSE None,
            IF current.entity.type_name # last.entity.type_name
                THEN Some(current.entity.type_name) ELSE None,
            [k \in changed |-> cattrs[k]],
            {k \in DOMAIN lattrs : k \notin DOMAIN cattrs},
            current.entity.extras)

RECURSIVE collect_patches(_, _, _)
RECURSIVE current_loop(_, _)

\* a variant of current_loop: the children of a matched pair are compared
\* only when the pair got no Modify
current_loop_stopping_at_modify(e, current) ==
    IF current = <<>> THEN [ops |-> <<>>, history |-> {}, res |-> Ok]
    ELSE IF ~InArena(e.arena, Head(current))
    THEN [ops |-> <<>>, history |-> {}, res |-> MissingFromArena(Head(current))]
    ELSE
      LET current_diffable == Get(e.arena, Head(current))
      IN  IF current_diffable.id \in DOMAIN e.last_state
          THEN
            LET last_index == e.last_state[current_diffable.id]
            IN  IF ~InArena(e.arena, last_index)
                THEN [ops |-> <<>>, history |-> {}, res |-> MissingFromArena(last_index)]
                ELSE
                  LET last_diffable == Get(e.arena, last_index)
                      own == IF current_diffable.identity_key # last_diffable.identity_key
                             THEN <<make_modify_patch(current_diffable, last_diffable)>>
                             ELSE <<>>
                      sub == IF own # <<>> THEN [ops |-> <<>>, res |-> Ok]
                             ELSE collect_patches(e, current_diffable.children_indexes,
                                                  last_diffable.children_indexes)
                  IN  IF sub.res.err # "Ok"
                      THEN [ops |-> own \o sub.ops, history |-> {last_index},
                            res |-> sub.res]
                      ELSE LET rest == current_loop(e, Tail(current))
                           IN  [ops |-> own \o sub.ops \o rest.ops,
                                history |-> {last_index} \cup rest.history,
                                res |-> rest.res]
          ELSE
            LET created == make_create_patch(e.arena, current_diffable)
            IN  IF created.res.err # "Ok"
                THEN [ops |-> <<>>, history |-> {}, res |-> created.res]
                ELSE LET rest == current_loop(e, Tail(current))
                     IN  [ops |-> created.ops \o rest.ops, history |-> rest.history,
                          res |-> rest.res]

\* the first loop of collect_patches: the patches of the current nodes and the
\* set `history` of matched last indices
current_loop(e, current) ==
    IF current = <<>> THEN [ops |-> <<>>, history |-> {}, res |-> Ok]
    ELSE IF ~InArena(e.arena, Head(current))
    THEN [ops |-> <<>>, history |-> {}, res |-> MissingFromArena(Head(current))]
    ELSE
      LET current_diffable == Get(e.arena, Head(current))
      IN  IF current_diffable.id \in DOMAIN e.last_state
          THEN
            LET last_index == e.last_state[current_diffable.id]
            IN  IF ~InArena(e.arena, last_index)
                THEN [ops |-> <<>>, history |-> {}, res |-> MissingFromArena(last_index)]
                ELSE
                  LET last_diffable == Get(e.arena, last_index)
                      own == IF current_diffable.identity_key # last_diffable.identity_key
                             THEN <<make_modify_patch(current_diffable, last_diffable)>>
                             ELSE <<>>
                      sub == collect_patches(e, current_diffable.children_indexes,
                                             last_diffable.children_indexes)
                  IN  IF sub.res.err # "Ok"
                      THEN [ops |-> own \o sub.ops, history |-> {last_index},
                            res |-> sub.res]
                      ELSE LET rest == current_loop(e, Tail(current))
                           IN  [ops |-> own \o sub.ops \o rest.ops,
                                history |-> {last_index} \cup rest.history,
                                res |-> rest.res]
          ELSE
            LET created == make_create_patch(e.arena, current_diffable)
            IN  IF created.res.err # "Ok"
                THEN [ops |-> <<>>, history |-> {}, res |-> created.res]
                ELSE LET rest == current_loop(e, Tail(current))
                     IN  [ops |-> created.ops \o rest.ops, history |-> rest.history,
                          res |-> rest.res]

\* a variant of last_loop: a deleted node's descendants get a Delete each
RECURSIVE last_loop_deep(_, _, _)
last_loop_deep(e, last, history) ==
    IF last = <<>> THEN [ops |-> <<>>, res |-> Ok]
    ELSE IF Head(last) \in history THEN last_loop_deep(e, Tail(last), history)
    ELSE IF ~InArena(e.arena, Head(last))
    THEN [ops |-> <<>>, res |-> MissingFromArena(Head(last))]
    ELSE
      LET last_diffable == Get(e.arena, Head(last))
          own == IF last_diffable.id \notin DOMAIN e.current_state
                 THEN <<make_delete_patch(last_diffable)>>
                      \o last_loop_deep(e, last_diffable.children_indexes, history).ops
                 ELSE <<>>
          rest == last_loop_deep(e, Tail(last), history)
      IN  [ops |-> own \o rest.ops, res |-> rest.res]

\* a variant of last_loop: every unmatched last node gets a Delete
RECURSIVE last_loop_unscoped(_, _, _)
last_loop_unscoped(e, last, history) ==
    IF last = <<>> THEN [ops |-> <<>>, res |-> Ok]
    ELSE IF Head(last) \in history THEN last_loop_unscoped(e, Tail(last), history)
    ELSE IF ~InArena(e.arena, Head(last))
    THEN [ops |-> <<>>, res |-> MissingFromArena(Head(last))]
    ELSE
      LET rest == last_loop_unscoped(e, Tail(last), history)
      IN  [ops |-> <<make_delete_patch(Get(e.arena, Head(last)))>> \o rest.ops,
           res |-> rest.res]

\* the second loop of collect_patches: a Delete for each last node that was not
\* matched and whose id is nowhere in current_state
RECURSIVE last_loop(_, _, _)
last_loop(e, last, history) ==
    IF last = <<>> THEN [ops |-> <<>>, res |-> Ok]
    ELSE IF Head(last) \in history THEN last_loop(e, Tail(last), history)
    ELSE IF ~InArena(e.arena, Head(last))
    THEN [ops |-> <<>>, res |-> MissingFromArena(Head(last))]
    ELSE
      LET last_diffable == Get(e.arena, Head(last))
          own == IF last_diffable.id \notin DOMAIN e.current_state
                 THEN <<make_delete_patch(last_diffable)>> ELSE <<>>
          rest == last_loop(e, Tail(last), history)
      IN  [ops |-> own \o rest.ops, res |-> rest.res]

\* a variant of collect_patches: the Delete patches of a level come first
collect_patches_deletes_first(e, current, last) ==
    LET c == current_loop(e, current)
    IN  IF c.res.err # "Ok" THEN [ops |-> c.ops, res |-> c.res]
        ELSE LET l == last_loop(e, last, c.history)
             IN  [ops |-> l.ops \o c.ops, res |-> l.res]

\* a variant of collect_patches: every node of the last list gets a Delete,
\* matched or not
collect_patches_deleting_matched(e, current, last) ==
    LET c == current_loop(e, current)
    IN  IF c.res.err # "Ok" THEN [ops |-> c.ops, res |-> c.res]
        ELSE LET l == last_loop_unscoped(e, last, {})
             IN  [ops |-> c.ops \o l.ops, res |-> l.res]

collect_patches(e, current, last) ==
    LET c == current_loop(e, current)
    IN  IF c.res.err # "Ok" THEN [ops |-> c.ops, res |-> c.res]
        ELSE LET l == last_loop(e, last, c.history)
             IN  [ops |-> c.ops \o l.ops, res |-> l.res]

\* diff(): Ok(operations) or the error; the engine is borrowed immutably
diff(e) ==
    LET r == collect_patches(e, e.current_root_indexes, e.last_root_indexes)
    IN  IF r.res.err = "Ok" THEN [res |-> Ok, patches |-> r.ops]
        ELSE [res |-> r.res, patches |-> <<>>]

-----------------------------------------------------------------------------
(* Inputs: entities and forests over a small pool of (name, role) pairs and  *)
(* of contents.                                                              *)

\* two names in one role, and one name in two roles
IdPool == {<<"a", "t">>, <<"b", "t">>, <<"a", "c">>}

\* A differs from B in its type_name, in the value of k, in having j, and in
\* its extras
ContentA == [type_name |-> "x", attrs |-> [k \in {"j", "k"} |-> "1"], extras |-> <<"e">>]
ContentB == [type_name |-> "y", attrs |-> [k \in {"k"} |-> "2"], extras |-> <<>>]
Contents == {ContentA, ContentB}

MkEntity(id, content, children) ==
    [name |-> id[1], role |-> id[2], type_name |-> content.type_name,
     attrs |-> content.attrs, extras |-> content.extras, children |-> children]

RECURSIVE TreesOf(_)
RECURSIVE ForestsOf(_)
\* the trees of exactly n entities
TreesOf(n) ==
    IF n = 0 THEN {}
    ELSE {MkEntity(id, c, ch) : id \in IdPool, c \in Contents, ch \in ForestsOf(n - 1)}
\* the forests of exactly n entities
ForestsOf(n) ==
    IF n = 0 THEN {<<>>}
    ELSE UNION {{<<t>> \o f : t \in TreesOf(k), f \in ForestsOf(n - k)} : k \in 1..n}

\* the entities of a forest in breadth-first order, children emptied
RECURSIVE BreadthFirst(_)
BreadthFirst(queue) ==
    IF queue = <<>> THEN <<>>
    ELSE <<[Head(queue) EXCEPT !.children = <<>>]>>
         \o BreadthFirst(Tail(queue) \o Head(queue).children)

Size(forest) == Len(BreadthFirst(forest))
IdsOf(forest) == {name_key(ent) : ent \in {BreadthFirst(forest)[i] : i \in 1..Size(forest)}}
\* the (name, role) pairs of the forest are unique
Unique(forest) == Cardinality(IdsOf(forest)) = Size(forest)

\* every forest with unique (name, role) pairs over the pool
UniqueForests == {f \in UNION {ForestsOf(n) : n \in 0..Cardinality(IdPool)} : Unique(f)}
\* the free-running caller loads and creates entities of content A only;
\* other contents come from its Modify patches
RECURSIVE ApiTreesOf(_)
RECURSIVE ApiForestsOf(_)
ApiTreesOf(n) ==
    IF n = 0 THEN {}
    ELSE {MkEntity(id, ContentA, ch) : id \in IdPool, ch \in ApiForestsOf(n - 1)}
ApiForestsOf(n) ==
    IF n = 0 THEN {<<>>}
    ELSE UNION {{<<t>> \o f : t \in ApiTreesOf(k), f \in ApiForestsOf(n - k)} : k \in 1..n}


\* the Modify patch body of the free-running caller: it turns content A into
\* content B, and names j both as a modification and as a deletion
ModifyBodies ==
    {[new_type_name |-> Some(ContentB.type_name),
      modifications |-> [k \in {"j", "k"} |-> "2"],
      deletions |-> {"j"}, extras |-> ContentB.extras]}

\* its forests, duplicates included, by number of entities
ApiForestsBySize == [n \in 0..MaxLoad |-> ApiForestsOf(n)]

\* the forests of the two-load script, duplicates included, by number of
\* entities
DeepForestsBySize == [n \in 0..MaxDeep |-> ApiForestsOf(n)]

\* the Delete and Modify patches of the free-running caller
ApiEdits ==
    {PatchDelete(id[1], id[2]) : id \in IdPool}
    \cup {PatchModify(id[1], id[2], n, b.new_type_name, b.modifications,
                      b.deletions, b.extras) :
             id \in IdPool, n \in {None, Some("b")}, b \in ModifyBodies}

\* the parents its New patches name: the pool, and b/c, which exists only
\* after a rename of a/c
ParentPool == IdPool \cup {<<"b", "c">>}

\* its New patches, by number of entities carried
ApiNewsBySize ==
    [n \in 1..MaxLoad |->
        {PatchNew(t, p) : t \in ApiTreesOf(n),
                          p \in {None} \cup {Some(id) : id \in ParentPool}}]

ApiPatches == ApiEdits \cup UNION {ApiNewsBySize[n] : n \in 1..MaxLoad}

\* the content inputs: both type names, every attribute map over the keys j, k
\* and the values "1", "2", every extras sequence over e, f up to MaxExtras
AttrMaps ==
    UNION {[ks -> {"1", "2"}] : ks \in SUBSET {AttrKeyOrder[i] : i \in 1..Len(AttrKeyOrder)}}
ExtrasSeqs == UNION {[1..n -> {"e", "f"}] : n \in 0..MaxExtras}
RichContents ==
    {[type_name |-> t, attrs |-> a, extras |-> x] :
        t \in {"x", "y"}, a \in AttrMaps, x \in ExtrasSeqs}
\* one childless entity a/t of every content
RichEntities == {MkEntity(<<"a", "t">>, c, <<>>) : c \in RichContents}

\* the hand-made Modify patches: either subject of the forest a/t {a/c}, any
\* new_name among none, a, b, any new_type_name, any modifications, any
\* deletions, any extras
RichModifies ==
    {PatchModify(id[1], id[2], n, t, m, d, x) :
        id \in {<<"a", "t">>, <<"a", "c">>},
        n \in {None, Some("a"), Some("b")},
        t \in {None, Some("x"), Some("y")},
        m \in AttrMaps,
        d \in SUBSET {AttrKeyOrder[i] : i \in 1..Len(AttrKeyOrder)},
        x \in ExtrasSeqs}
\* the forests they are applied to: a/t of either content with the child a/c
ModifyForests ==
    {<<MkEntity(<<"a", "t">>, c, <<MkEntity(<<"a", "c">>, ContentA, <<>>)>>)>> :
        c \in Contents}

\* the orders in which a hash map of the given keys may yield them
Iterations(keys) ==
    {it \in [1..Cardinality(keys) -> keys] :
        \A i, j \in 1..Cardinality(keys) : i # j => it[i] # it[j]}
\* the entities whose keys are compared: the first is a/t of content A or B,
\* the second has any name, role and content, with or without a child
KeyedFirst == {MkEntity(<<"a", "t">>, c, <<>>) : c \in Contents}
KeyedSecond ==
    {MkEntity(<<n, r>>, c, ch) :
        n \in {"a", "b"}, r \in {"t", "c"}, c \in RichContents,
        ch \in {<<>>, <<MkEntity(<<"b", "c">>, ContentB, <<>>)>>}}

-----------------------------------------------------------------------------
(* The engine as a state machine *)

E == Engine(diffable_arena, last_state, current_state,
            last_root_indexes, current_root_indexes)

SetEngine(e) ==
    /\ diffable_arena' = e.arena
    /\ last_state' = e.last_state
    /\ current_state' = e.current_state
    /\ last_root_indexes' = e.last_root_indexes
    /\ current_root_indexes' = e.current_root_indexes

Returned(op, res, patches) == [op |-> op, res |-> res, patches |-> patches]

\* DiffEngine::new()
New ==
    /\ diffable_arena = <<>>
    /\ last_state = EmptyMap
    /\ current_state = EmptyMap
    /\ last_root_indexes = <<>>
    /\ current_root_indexes = <<>>
    /\ ret = Returned("new", Ok, <<>>)

(* The free-running caller: any call, in any order *)

Init ==
    /\ New
    /\ pc = "api"
    /\ inL = <<>> /\ inC = <<>> /\ pending = <<>> /\ errs = <<>>

Script == UNCHANGED <<pc, inL, inC, pending, errs>>

LoadLast(entities) ==
    /\ LET r == load_last_state(E, entities)
       IN  SetEngine(r.e) /\ ret' = Returned("load_last_state", r.res, <<>>)
    /\ Script

LoadCurrent(entities) ==
    /\ LET r == load_current_state(E, entities)
       IN  SetEngine(r.e) /\ ret' = Returned("load_current_state", r.res, <<>>)
    /\ Script

CallPatch(op) ==
    /\ LET r == patch(E, op)
       IN  SetEngine(r.e) /\ ret' = Returned("patch", r.res, <<>>)
    /\ Script

\* a variant of CallDiff: the walk takes the current root list out of the engine
CallDiffTaking ==
    /\ LET r == diff(E)
       IN  ret' = Returned("diff", r.res, r.patches)
    /\ current_root_indexes' = <<>>
    /\ UNCHANGED <<diffable_arena, last_state, current_state, last_root_indexes>>
    /\ Script

CallDiff ==
    /\ LET r == diff(E)
       IN  ret' = Returned("diff", r.res, r.patches)
    /\ UNCHANGED engine
    /\ Script

\* the most entities a call may add: the caller stops filling the arena at
\* MaxArena slots
Room == IF MaxArena - Len(diffable_arena) < MaxLoad
        THEN MaxArena - Len(diffable_arena) ELSE MaxLoad

Next ==
    \/ \E n \in 0..Room : \E entities \in ApiForestsBySize[n] : LoadLast(entities)
    \/ \E n \in 0..Room : \E entities \in ApiForestsBySize[n] : LoadCurrent(entities)
    \/ \E op \in ApiEdits : CallPatch(op)
    \/ \E n \in 1..Room : \E op \in ApiNewsBySize[n] : CallPatch(op)
    \/ CallDiff

Spec == Init /\ [][Next]_vars

(* The script load_last_state(L); load_current_state(C); diff(); patch() of  *)
(* each returned patch in order; diff()                                      *)

InitReplay ==
    /\ New
    /\ pc = "load_last"
    /\ inL = <<>> /\ inC = <<>> /\ pending = <<>> /\ errs = <<>>

ReplayLoadLast ==
    /\ pc = "load_last"
    /\ \E entities \in UniqueForests :
          /\ LET r == load_last_state(E, entities)
             IN  SetEngine(r.e) /\ ret' = Returned("load_last_state", r.res, <<>>)
          /\ inL' = entities
    /\ pc' = "load_current"
    /\ UNCHANGED <<inC, pending, errs>>

ReplayLoadCurrent ==
    /\ pc = "load_current"
    /\ \E entities \in UniqueForests :
          /\ LET r == load_current_state(E, entities)
             IN  SetEngine(r.e) /\ ret' = Returned("load_current_state", r.res, <<>>)
          /\ inC' = entities
    /\ pc' = "diff"
    /\ UNCHANGED <<inL, pending, errs>>

ReplayDiff ==
    /\ pc = "diff"
    /\ LET r == diff(E)
       IN  ret' = Returned("diff", r.res, r.patches) /\ pending' = r.patches
    /\ pc' = "replay"
    /\ UNCHANGED <<engine, inL, inC, errs>>

ReplayPatch ==
    /\ pc = "replay" /\ pending # <<>>
    /\ LET r == patch(E, Head(pending))
       IN  /\ SetEngine(r.e)
           /\ ret' = Returned("patch", r.res, <<>>)
           /\ errs' = Append(errs, r.res)
    /\ pending' = Tail(pending)
    /\ UNCHANGED <<pc, inL, inC>>

ReplayDiffAgain ==
    /\ pc = "replay" /\ pending = <<>>
    /\ LET r == diff(E)
       IN  ret' = Returned("diff", r.res, r.patches)
    /\ pc' = "done"
    /\ UNCHANGED <<engine, inL, inC, pending, errs>>

NextReplay ==
    \/ ReplayLoadLast
    \/ ReplayLoadCurrent
    \/ ReplayDiff
    \/ ReplayPatch
    \/ ReplayDiffAgain

SpecReplay == InitReplay /\ [][NextReplay]_vars

(* The same script over one entity a/t of any content on each side *)

ContentLoadLast ==
    /\ pc = "load_last"
    /\ \E ent \in RichEntities :
          /\ LET r == load_last_state(E, <<ent>>)
             IN  SetEngine(r.e) /\ ret' = Returned("load_last_state", r.res, <<>>)
          /\ inL' = <<ent>>
    /\ pc' = "load_current"
    /\ UNCHANGED <<inC, pending, errs>>

ContentLoadCurrent ==
    /\ pc = "load_current"
    /\ \E ent \in RichEntities :
          /\ LET r == load_current_state(E, <<ent>>)
             IN  SetEngine(r.e) /\ ret' = Returned("load_current_state", r.res, <<>>)
          /\ inC' = <<ent>>
    /\ pc' = "diff"
    /\ UNCHANGED <<inL, pending, errs>>

NextContent ==
    \/ ContentLoadLast
    \/ ContentLoadCurrent
    \/ ReplayDiff
    \/ ReplayPatch
    \/ ReplayDiffAgain

SpecContent == InitReplay /\ [][NextContent]_vars

(* Two loads in a row, each into either state: a forest of up to MaxFirst     *)
(* entities, then one of up to MaxDeep entities                              *)

InitLoads ==
    /\ New
    /\ pc = "first"
    /\ inL = <<>> /\ inC = <<>> /\ pending = <<>> /\ errs = <<>>

LoadsSize == IF pc = "first" THEN MaxFirst ELSE MaxDeep
LoadsStep ==
    /\ pc \in {"first", "second"}
    /\ pc' = IF pc = "first" THEN "second" ELSE "done"

LoadsLast ==
    /\ LoadsStep
    /\ \E n \in 0..LoadsSize : \E entities \in DeepForestsBySize[n] :
          /\ LET r == load_last_state(E, entities)
             IN  SetEngine(r.e) /\ ret' = Returned("load_last_state", r.res, <<>>)
          /\ inL' = entities
    /\ UNCHANGED <<inC, pending, errs>>

LoadsCurrent ==
    /\ LoadsStep
    /\ \E n \in 0..LoadsSize : \E entities \in DeepForestsBySize[n] :
          /\ LET r == load_current_state(E, entities)
             IN  SetEngine(r.e) /\ ret' = Returned("load_current_state", r.res, <<>>)
          /\ inC' = entities
    /\ UNCHANGED <<inL, pending, errs>>

NextLoads ==
    \/ LoadsLast
    \/ LoadsCurrent

SpecLoads == InitLoads /\ [][NextLoads]_vars

(* One hand-made Modify: load_last_state of a forest, patch() of the Modify,  *)
(* diff()                                                                    *)

ModifyLoadLast ==
    /\ pc = "load_last"
    /\ \E entities \in ModifyForests :
          /\ LET r == load_last_state(E, entities)
             IN  SetEngine(r.e) /\ ret' = Returned("load_last_state", r.res, <<>>)
          /\ inL' = entities
    /\ \E op \in RichModifies : pending' = <<op>>
    /\ pc' = "replay"
    /\ UNCHANGED <<inC, errs>>

NextModify ==
    \/ ModifyLoadLast
    \/ ReplayPatch
    \/ ReplayDiffAgain

SpecModify == InitReplay /\ [][NextModify]_vars

(* The keys of two entities: inL and inC hold the entities, `pending` the     *)
(* orders in which their attrs maps yield their keys, and the value returned *)
(* carries their name keys and identity keys                                 *)

InitKeys ==
    /\ New
    /\ pc = "first"
    /\ inL = <<>> /\ inC = <<>> /\ pending = <<>> /\ errs = <<>>

KeysFirst ==
    /\ pc = "first"
    /\ \E ent \in KeyedFirst : \E it \in Iterations(DOMAIN ent.attrs) :
          /\ inL' = <<ent>>
          /\ pending' = <<it>>
    /\ pc' = "second"
    /\ UNCHANGED <<engine, ret, inC, errs>>

KeysSecond ==
    /\ pc = "second"
    /\ \E ent \in KeyedSecond : \E it \in Iterations(DOMAIN ent.attrs) :
          /\ inC' = <<ent>>
          /\ pending' = Append(pending, it)
          /\ ret' = [op |-> "keys", res |-> Ok, patches |-> <<>>,
                     name_keys |-> <<name_key(inL[1]), name_key(ent)>>,
                     identity_keys |->
                         <<identity_key_iterating(inL[1], pending[1]),
                           identity_key_iterating(ent, it)>>]
    /\ pc' = "done"
    /\ UNCHANGED <<engine, inL, errs>>

NextKeys ==
    \/ KeysFirst
    \/ KeysSecond

SpecKeys == InitKeys /\ [][NextKeys]_vars

-----------------------------------------------------------------------------
(* Claims *)

AllOk(results) == \A i \in 1..Len(results) : results[i].err = "Ok"
\* the first diff() of the script has just returned
AfterFirstDiff == pc = "replay" /\ errs = <<>>

\* C1: replay convergence.  After load_last_state(L), load_current_state(C),
\* diff() and patch() of every returned patch in order, all of them
\* successful, the next diff() returns Ok with an empty patch list.
C1_ReplayConverges ==
    (pc = "done" /\ AllOk(errs)) => (ret.res.err = "Ok" /\ ret.patches = <<>>)

\* C2: replay of the diff output never fails.  Every patch() call of the
\* script returns Ok.
C2_ReplayNeverFails == AllOk(errs)

\* C3: a failed patch() makes no mutation.  Whenever a patch() call returns an
\* error, the arena, both state maps and both root lists are as before.
C3_FailedPatchNoMutation ==
    [][(ret'.op = "patch" /\ ret'.res.err # "Ok") => UNCHANGED engine]_vars

\* C4: patch() touches only the "last" half.  A patch() call, successful or
\* not, leaves current_state, current_root_indexes and every arena node
\* registered in current_state as they were.
C4_PatchKeepsCurrent ==
    [][ret'.op = "patch" =>
          /\ current_state' = current_state
          /\ current_root_indexes' = current_root_indexes
          /\ \A id \in DOMAIN current_state :
                /\ InArena(diffable_arena', current_state[id])
                /\ Get(diffable_arena', current_state[id])
                       = Get(diffable_arena, current_state[id])]_vars

\* a successful patch() on an engine whose current half holds an entity that
\* also has a node of the same (name, role) in the last half
C4_Witness ==
    /\ ret.op = "patch" /\ ret.res.err = "Ok"
    /\ \E id \in DOMAIN current_state : \E i \in 1..Len(diffable_arena) :
          diffable_arena[i].id = id /\ i - 1 # current_state[id]

C6_ArenaAppendOnly ==
    [][/\ Len(diffable_arena') >= Len(diffable_arena)
       /\ \A i \in 1..Len(diffable_arena) :
             /\ diffable_arena'[i].index = diffable_arena[i].index
             /\ diffable_arena'[i].parent_index = diffable_arena[i].parent_index
             /\ diffable_arena'[i].role_key = diffable_arena[i].role_key
       /\ \A i \in 1..Len(diffable_arena') : diffable_arena'[i].index = i - 1]_vars

\* a (name, role) was deleted by a patch and created again: its old node is
\* still in the arena, unregistered, and last_state names the later node
C6_Witness ==
    /\ ret.op = "patch" /\ ret.res.err = "Ok"
    /\ DOMAIN current_state = {}
    /\ \E i, j \in 1..Len(diffable_arena) :
          /\ i < j
          /\ diffable_arena[i].id = diffable_arena[j].id
          /\ diffable_arena[j].id \in DOMAIN last_state
          /\ last_state[diffable_arena[j].id] = j - 1

\* every index stored in the engine is smaller than the arena length
IndexesInArena ==
    /\ \A id \in DOMAIN last_state : InArena(diffable_arena, last_state[id])
    /\ \A id \in DOMAIN current_state : InArena(diffable_arena, current_state[id])
    /\ \A i \in 1..Len(last_root_indexes) : InArena(diffable_arena, last_root_indexes[i])
    /\ \A i \in 1..Len(current_root_indexes) :
          InArena(diffable_arena, current_root_indexes[i])
    /\ \A i \in 1..Len(diffable_arena) :
          /\ \A j \in 1..Len(diffable_arena[i].children_indexes) :
                InArena(diffable_arena, diffable_arena[i].children_indexes[j])
          /\ diffable_arena[i].parent_index # None =>
                InArena(diffable_arena, diffable_arena[i].parent_index[1])

\* C7: MissingFromArena is unreachable through the public API.  No call
\* returns it, and every stored index is smaller than the arena length.
C7_NoMissingFromArena == ret.res.err # "MissingFromArena" /\ IndexesInArena

\* diff() has walked an engine with a loaded current half, a child link and a
\* node that a patch unregistered
C7_Witness ==
    /\ ret.op = "diff" /\ ret.res.err = "Ok" /\ ret.patches # <<>>
    /\ DOMAIN current_state # {}
    /\ \E i \in 1..Len(diffable_arena) : diffable_arena[i].children_indexes # <<>>
    /\ \E i \in 1..Len(diffable_arena) :
          /\ diffable_arena[i].id \notin DOMAIN current_state
          /\ diffable_arena[i].id \notin DOMAIN last_state

\* C8: reflexivity.  When the same forest was loaded as last and as current,
\* the first diff() returns Ok with the empty list.
C8_Reflexive ==
    (AfterFirstDiff /\ inL = inC) => (ret.res.err = "Ok" /\ ret.patches = <<>>)

\* the same three-level forest was loaded twice and diffed
C8_Witness ==
    /\ AfterFirstDiff /\ inL = inC /\ ret.op = "diff"
    /\ Len(inL) = 1 /\ Len(inL[1].children) = 1
    /\ Len(inL[1].children[1].children) = 1

\* C9: pure addition.  When last is empty, the first diff() returns one New
\* per root of the current forest, in root order, with parent None and the
\* root's complete subtree, and nothing else.
C9_PureAddition ==
    (AfterFirstDiff /\ inL = <<>>) =>
        /\ ret.res.err = "Ok"
        /\ ret.patches = [i \in 1..Len(inC) |-> PatchNew(inC[i], None)]

\* a current forest of three levels, and one of two roots, the second with a
\* child, were diffed against an empty last
C9_Witness ==
    /\ AfterFirstDiff /\ inL = <<>> /\ ret.op = "diff"
    /\ Len(inC) = 1 /\ Len(inC[1].children) = 1
    /\ Len(inC[1].children[1].children) = 1

\* C10: pure removal.  When current is empty, the first diff() returns one
\* Delete per root of the last forest, in root order, and nothing for any
\* descendant.
C10_PureRemoval ==
    (AfterFirstDiff /\ inC = <<>>) =>
        /\ ret.res.err = "Ok"
        /\ ret.patches =
               [i \in 1..Len(inL) |-> PatchDelete(inL[i].name, inL[i].role)]

\* a last forest of two roots, the first with a child, was diffed against an
\* empty current
C10_Witness ==
    /\ AfterFirstDiff /\ inC = <<>> /\ ret.op = "diff"
    /\ Len(inL) = 2 /\ Len(inL[1].children) = 1

\* the patches of the given kind in the value the last diff() returned
PatchesOfKind(kind) ==
    {i \in 1..Len(ret.patches) : ret.patches[i].kind = kind}

\* last = [E] and current = [E'], E' being E under another name
RenamedPair ==
    /\ Len(inL) = 1 /\ Len(inC) = 1
    /\ inC[1].name # inL[1].name
    /\ inC[1] = [inL[1] EXCEPT !.name = inC[1].name]

\* C11: a rename is observed as delete plus create.  When last = [E] and
\* current = [E'] where E' differs from E only in its name, the first diff()
\* returns exactly two patches, one Delete{E.name, E.role} and one New whose
\* entity has E'.name, and no Modify.
C11_RenameIsDeletePlusNew ==
    (AfterFirstDiff /\ RenamedPair) =>
        /\ ret.res.err = "Ok"
        /\ Len(ret.patches) = 2
        /\ PatchesOfKind("Modify") = {}
        /\ \E i \in PatchesOfKind("Delete") :
              ret.patches[i] = PatchDelete(inL[1].name, inL[1].role)
        /\ \E i \in PatchesOfKind("New") :
              ret.patches[i].entity.name = inC[1].name

\* a/t with a child was diffed against the same entity named b/t
C11_Witness ==
    /\ AfterFirstDiff /\ RenamedPair /\ ret.op = "diff"
    /\ inL[1].children # <<>>

\* C12: diff() never reports a rename.  Whatever loads and patch() calls came
\* before, patch(Modify) with new_name included, every Modify that diff()
\* returns has new_name = None.
C12_DiffNeverRenames ==
    ret.op = "diff" =>
        \A i \in PatchesOfKind("Modify") : ret.patches[i].new_name = None

\* diff() returned a Modify on an engine whose last half holds b/c, a
\* (name, role) that only patch(Modify) with new_name creates
C12_Witness ==
    /\ ret.op = "diff" /\ ret.res.err = "Ok"
    /\ PatchesOfKind("Modify") # {}
    /\ make_name_key("b", "c") \in DOMAIN last_state

\* C13: content of a Modify produced by diff() for a matched pair (cur, last).
\* name and role are last's; modifications maps exactly the keys of cur.attrs
\* that last.attrs lacks or holds with another value to cur's values;
\* deletions is exactly the keys of last.attrs that cur.attrs lacks;
\* new_type_name is Some(cur.type_name) iff the type names differ; extras is
\* cur.extras whether or not it changed.
C13_ModifyContent ==
    AfterFirstDiff =>
        \A i \in PatchesOfKind("Modify") :
            LET p == ret.patches[i]
                cur == inC[1]
                last == inL[1]
            IN  /\ p.name = last.name /\ p.role = last.role
                /\ DOMAIN p.modifications =
                       {k \in DOMAIN cur.attrs :
                           k \notin DOMAIN last.attrs \/ last.attrs[k] # cur.attrs[k]}
                /\ \A k \in DOMAIN p.modifications :
                       p.modifications[k] = cur.attrs[k]
                /\ p.deletions = (DOMAIN last.attrs) \ (DOMAIN cur.attrs)
                /\ (p.new_type_name = Some(cur.type_name)
                       <=> cur.type_name # last.type_name)
                /\ (p.new_type_name = None
                       <=> cur.type_name = last.type_name)
                /\ p.extras = cur.extras

\* a Modify for a pair of equal type name and equal, non-empty extras, where k
\* changed its value and j was removed
C13_Witness ==
    /\ AfterFirstDiff /\ PatchesOfKind("Modify") # {}
    /\ inC[1].type_name = inL[1].type_name
    /\ inC[1].extras = inL[1].extras /\ inC[1].extras # <<>>
    /\ DOMAIN inL[1].attrs = {"j", "k"} /\ DOMAIN inC[1].attrs = {"k"}
    /\ inL[1].attrs["k"] # inC[1].attrs["k"]

\* the elements of a sequence
Range(seq) == {seq[i] : i \in 1..Len(seq)}

\* the index ix and the indices of all its descendants along children_indexes
RECURSIVE SubtreeIndexes(_, _)
SubtreeIndexes(arena, ix) ==
    {ix} \cup UNION {SubtreeIndexes(arena, c) : c \in Range(Get(arena, ix).children_indexes)}

\* the Delete patches of the free-running caller
ApiDeletes == {op \in ApiEdits : op.kind = "Delete"}

\* C14: cascading delete.  A successful patch(Delete{name, role}) removes from
\* last_state the id of the named node and of every descendant at any depth,
\* removes the node's index from its parent's children_indexes (from
\* last_root_indexes for a root), leaves every other last_state entry in
\* place and leaves the arena length unchanged.
C14_CascadingDelete ==
    [][\A op \in ApiDeletes :
          (CallPatch(op) /\ ret'.res.err = "Ok") =>
              LET index  == last_state[make_name_key(op.name, op.role)]
                  gone   == {Get(diffable_arena, ix).id :
                                ix \in SubtreeIndexes(diffable_arena, index)}
                  parent == Get(diffable_arena, index).parent_index
              IN  /\ DOMAIN last_state' = (DOMAIN last_state) \ gone
                  /\ \A id \in DOMAIN last_state' : last_state'[id] = last_state[id]
                  /\ Len(diffable_arena') = Len(diffable_arena)
                  /\ IF parent = None
                     THEN index \notin Range(last_root_indexes')
                     ELSE index \notin
                              Range(Get(diffable_arena', parent[1]).children_indexes)]_vars

\* a chain of three last nodes whose root was deleted: the child and the
\* grandchild are still linked under it and nothing is registered
C14_Witness ==
    /\ ret.op = "patch" /\ ret.res.err = "Ok"
    /\ DOMAIN last_state = {} /\ DOMAIN current_state = {}
    /\ Len(diffable_arena) = 3
    /\ diffable_arena[1].children_indexes = <<1>>
    /\ diffable_arena[2].children_indexes = <<2>>

\* C15: patch(Delete{name, role}) and patch(Modify{name, role, ..}) fail with
\* EntityNotFound{name, role} whenever (name, role) is not registered in
\* last_state, whatever the other fields of the patch are, new_name included.
C15_UnknownSubjectNotFound ==
    [][\A op \in ApiEdits :
          (CallPatch(op) /\ make_name_key(op.name, op.role) \notin DOMAIN last_state)
              => ret'.res = EntityNotFound(op.name, op.role)]_vars

\* the Modify patches of the free-running caller that carry a new_name
ApiRenames == {op \in ApiEdits : op.kind = "Modify" /\ op.new_name # None}

\* C16: patch(Modify{name, role, new_name: Some(n), ..}) on a registered
\* (name, role) fails with DuplicateEntity{name: n, role} exactly when (n, role)
\* is registered in last_state and n differs from name; a Modify whose
\* new_name is the entity's own name succeeds.
C16_RenameDuplicate ==
    [][\A op \in ApiRenames :
          (CallPatch(op) /\ make_name_key(op.name, op.role) \in DOMAIN last_state) =>
              LET n == op.new_name[1]
                  taken == /\ make_name_key(n, op.role) \in DOMAIN last_state
                           /\ n # op.name
              IN  /\ taken => ret'.res = DuplicateEntity(n, op.role)
                  /\ ~taken => ret'.res.err # "DuplicateEntity"
                  /\ n = op.name => ret'.res = Ok]_vars

\* a patch() call was refused with DuplicateEntity{b, c}: b/c comes from a
\* rename of a/c, and only a second rename of a later a/c collides with it
C16_Witness ==
    /\ ret.op = "patch" /\ ret.res = DuplicateEntity("b", "c")
    /\ make_name_key("a", "c") \in DOMAIN last_state
    /\ make_name_key("b", "c") \in DOMAIN last_state

\* the New patches of the free-running caller, by the parent they name
ApiNewsUnder ==
    [parent \in ParentPool |->
        {op \in UNION {ApiNewsBySize[n] : n \in 1..MaxLoad} : op.parent = Some(parent)}]

\* C17: patch(New{entity, parent: Some((pn, pr))}) fails with
\* EntityNotFound{pn, pr} whenever (pn, pr) is not registered in last_state,
\* also when it is registered in current_state or was removed by an earlier
\* cascading Delete.
C17_NewUnderUnknownParent ==
    [][\A parent \in ParentPool :
          make_name_key(parent[1], parent[2]) \notin DOMAIN last_state =>
              \A op \in ApiNewsUnder[parent] :
                  (ret'.op = "patch" /\ CallPatch(op))
                      => ret'.res = EntityNotFound(parent[1], parent[2])]_vars

\* a patch() call was refused with EntityNotFound{b, c}, which only a New
\* under the parent b/c returns, and the arena still holds the node b/c that
\* a cascading Delete of its parent unregistered
C17_Witness ==
    /\ ret.op = "patch" /\ ret.res = EntityNotFound("b", "c")
    /\ \E i \in 1..Len(diffable_arena) :
          /\ diffable_arena[i].id = make_name_key("b", "c")
          /\ diffable_arena[i].parent_index # None

\* the positions of a breadth-first listing whose (name, role) is registered
\* in `state` or borne by an earlier entity of the listing
DuplicatePositions(state, listing) ==
    {i \in 1..Len(listing) :
        \/ name_key(listing[i]) \in DOMAIN state
        \/ \E j \in 1..(i - 1) : name_key(listing[j]) = name_key(listing[i])}

\* what a load of `forest` into `state` has to return
LoadVerdict(state, forest) ==
    LET listing == BreadthFirst(forest)
        dups    == DuplicatePositions(state, listing)
    IN  IF dups = {} THEN Ok
        ELSE LET first == CHOOSE i \in dups : \A j \in dups : i <= j
             IN  DuplicateEntity(listing[first].name, listing[first].role)

\* C18: duplicate detection at load is scoped to the target state.
\* load_last_state (load_current_state) fails with DuplicateEntity{name, role}
\* iff the forest, in breadth-first order, holds an entity whose (name, role)
\* is already registered in last_state (current_state) by an earlier entity of
\* the call or by an earlier call, and names the first such entity; what is
\* registered in the other state only never makes a duplicate.
C18_LoadDuplicateScoped ==
    [][/\ ret'.op = "load_last_state" => ret'.res = LoadVerdict(last_state, inL')
       /\ ret'.op = "load_current_state" =>
              ret'.res = LoadVerdict(current_state, inC')]_vars

\* a forest of two roots, the first three levels deep, was refused by
\* load_current_state on an engine where one (name, role) is registered in
\* both states
C18_Witness ==
    /\ ret.op = "load_current_state" /\ ret.res.err = "DuplicateEntity"
    /\ pc = "done"
    /\ Len(inC) = 2 /\ inC[1].children # <<>>
    /\ inC[1].children[1].children # <<>>
    /\ \E id \in DOMAIN last_state : id \in DOMAIN current_state

\* the entity of the forest that bears the id; the forest holds it once
RECURSIVE FindEntity(_, _)
FindEntity(forest, id) ==
    IF name_key(Head(forest)) = id THEN Head(forest)
    ELSE FindEntity(Tail(forest) \o Head(forest).children, id)

\* the content an entity is compared by
ContentOf(ent) == <<ent.type_name, ent.attrs, ent.extras>>

\* the Modify that turns the content of `last` into the content of `cur`
ModifyOf(cur, last) ==
    PatchModify(last.name, last.role, None,
                IF cur.type_name # last.type_name THEN Some(cur.type_name) ELSE None,
                [k \in {k \in DOMAIN cur.attrs :
                            k \notin DOMAIN last.attrs \/ last.attrs[k] # cur.attrs[k]}
                    |-> cur.attrs[k]],
                (DOMAIN last.attrs) \ (DOMAIN cur.attrs),
                cur.extras)

\* the listing of one compared pair of lists: for each node of `cur` in order,
\* its own Modify (when its content differs from its namesake of the last
\* forest) followed by the listing of the two children lists, or its New when
\* the last forest has no namesake; then a Delete for each node of `last`, in
\* order, that the current forest has no namesake of
RECURSIVE OrderedListing(_, _, _)
OrderedListing(cur, last, parent) ==
    LET ofNode(c) ==
            IF name_key(c) \in IdsOf(inL)
            THEN LET l == FindEntity(inL, name_key(c))
                 IN  (IF ContentOf(c) # ContentOf(l) THEN <<ModifyOf(c, l)>> ELSE <<>>)
                     \o OrderedListing(c.children, l.children, Some(<<c.name, c.role>>))
            ELSE <<PatchNew(c, parent)>>
        gone == SelectSeq(last, LAMBDA l : name_key(l) \notin IdsOf(inC))
    IN  Flatten([i \in 1..Len(cur) |-> ofNode(cur[i])])
        \o [i \in 1..Len(gone) |-> PatchDelete(gone[i].name, gone[i].role)]

\* C19: order of the diff() output.  For each compared pair of lists the
\* patches come in the order of the current list, a node's own Modify
\* directly followed by all patches of its children's comparison and before
\* anything of its next sibling; the Delete patches of the level come after
\* all patches of the level's current nodes, in the order of the last list.
C19_DiffOrder ==
    AfterFirstDiff =>
        /\ ret.res.err = "Ok"
        /\ ret.patches = OrderedListing(inC, inL, None)

\* the first root got a Modify, its level of children a Delete, and only
\* then the second root its Modify
C19_Witness ==
    /\ AfterFirstDiff /\ ret.op = "diff"
    /\ Len(ret.patches) = 3
    /\ ret.patches[1].kind = "Modify"
    /\ ret.patches[2].kind = "Delete"
    /\ ret.patches[3].kind = "Modify"

\* the ids that last_state and current_state both register
SharedIds == (DOMAIN last_state) \cap (DOMAIN current_state)

\* C20: diff() never emits Delete{name, role} for a (name, role) registered in
\* current_state: a last node whose id exists anywhere in current_state gets
\* no Delete, and when its content equals its current namesake's no Modify
\* either, matched at its own level or not.
C20_NoDeleteOfCurrent ==
    ret.op = "diff" =>
        /\ \A i \in PatchesOfKind("Delete") :
              make_name_key(ret.patches[i].name, ret.patches[i].role)
                  \notin DOMAIN current_state
        /\ \A id \in SharedIds :
              Get(diffable_arena, last_state[id]).identity_key
                  = Get(diffable_arena, current_state[id]).identity_key
              => \A i \in PatchesOfKind("Modify") :
                     make_name_key(ret.patches[i].name, ret.patches[i].role) # id

\* diff() returned patches for an engine where a last root has its namesake
\* in current_state under a parent: the root is unmatched at its level
C20_Witness ==
    /\ ret.op = "diff" /\ ret.res.err = "Ok" /\ ret.patches # <<>>
    /\ \E id \in SharedIds :
          /\ Get(diffable_arena, last_state[id]).parent_index = None
          /\ Get(diffable_arena, current_state[id]).parent_index # None

\* the current entities the walk of diff() comes to, each with the
\* (name, role) of its parent: the roots, and the children of every visited
\* entity that has a namesake in the last forest
RECURSIVE VisitedCurrent(_, _)
VisitedCurrent(cur, parent) ==
    UNION {{[ent |-> cur[i], parent |-> parent]}
           \cup (IF name_key(cur[i]) \in IdsOf(inL)
                 THEN VisitedCurrent(cur[i].children,
                                     Some(<<cur[i].name, cur[i].role>>))
                 ELSE {}) : i \in 1..Len(cur)}

\* the id a patch is about
PatchSubject(p) ==
    IF p.kind = "New" THEN name_key(p.entity) ELSE make_name_key(p.name, p.role)

\* C21: for every current node that diff() visits and whose id is absent from
\* last_state, diff() emits exactly one New patch, whose entity is the node
\* with its entire current subtree and whose parent is the (name, role) of
\* the node's current parent, None for a root; no patch is about any of its
\* descendants.
C21_NewCarriesSubtree ==
    AfterFirstDiff =>
        \A v \in VisitedCurrent(inC, None) :
            name_key(v.ent) \notin IdsOf(inL) =>
                /\ Cardinality({i \in PatchesOfKind("New") :
                                   PatchSubject(ret.patches[i]) = name_key(v.ent)}) = 1
                /\ \E i \in PatchesOfKind("New") :
                       ret.patches[i] = PatchNew(v.ent, v.parent)
                /\ \A i \in 1..Len(ret.patches) :
                       PatchSubject(ret.patches[i]) \notin IdsOf(v.ent.children)

\* a childless last root was diffed against its namesake with a child and a
\* grandchild: the child is new under a parent and carries the grandchild
C21_Witness ==
    /\ AfterFirstDiff /\ ret.op = "diff"
    /\ Len(inL) = 1 /\ inL[1].children = <<>>
    /\ Len(inC) = 1 /\ name_key(inC[1]) = name_key(inL[1])
    /\ inC[1].children # <<>> /\ inC[1].children[1].children # <<>>
    /\ \E i \in PatchesOfKind("New") : ret.patches[i].parent # None

\* a patch() step of a script that hands over the Modify at the head of
\* `pending` and gets Ok
ModifySucceeds ==
    /\ pc = "replay" /\ pending # <<>> /\ pending' = Tail(pending)
    /\ Head(pending).kind = "Modify"
    /\ ret'.op = "patch" /\ ret'.res.err = "Ok"

\* C22: effect of a successful patch(Modify).  The node keeps its arena index,
\* parent_index and children_indexes; name and type_name are replaced when
\* new_name / new_type_name are present; attrs become the old attrs
\* overwritten by modifications, minus the deletions keys, so a key in both
\* ends up absent; extras are the patch's; last_state maps the id of the new
\* (name, role) to the same index and, when the name changed, no longer holds
\* the old id.
C22_ModifyEffect ==
    [][ModifySucceeds =>
          LET op    == Head(pending)
              id    == make_name_key(op.name, op.role)
              ix    == last_state[id]
              old   == Get(diffable_arena, ix)
              new   == Get(diffable_arena', ix)
              name  == IF op.new_name # None THEN op.new_name[1] ELSE old.entity.name
              mods  == op.modifications
          IN  /\ Len(diffable_arena') = Len(diffable_arena)
              /\ new.index = old.index
              /\ new.parent_index = old.parent_index
              /\ new.children_indexes = old.children_indexes
              /\ new.entity.name = name
              /\ new.entity.role = old.entity.role
              /\ new.entity.type_name =
                     (IF op.new_type_name # None
                      THEN op.new_type_name[1] ELSE old.entity.type_name)
              /\ DOMAIN new.entity.attrs =
                     ((DOMAIN old.entity.attrs) \cup (DOMAIN mods)) \ op.deletions
              /\ \A k \in DOMAIN new.entity.attrs :
                     new.entity.attrs[k] =
                         (IF k \in DOMAIN mods THEN mods[k] ELSE old.entity.attrs[k])
              /\ new.entity.extras = op.extras
              /\ make_name_key(name, op.role) \in DOMAIN last_state'
              /\ last_state'[make_name_key(name, op.role)] = ix
              /\ name # op.name => id \notin DOMAIN last_state']_vars

\* the child a/c was renamed to b/c by a Modify that also cleared its attrs:
\* it is still the child of a/t, registered under its new id only
C22_Witness ==
    /\ pc = "replay" /\ pending = <<>> /\ errs = <<Ok>>
    /\ Len(diffable_arena) = 2
    /\ diffable_arena[1].children_indexes = <<1>>
    /\ diffable_arena[2].entity.name = "b"
    /\ DOMAIN diffable_arena[2].entity.attrs = {}
    /\ DOMAIN last_state = {make_name_key("a", "t"), make_name_key("b", "c")}

\* a patch() step of a script that hands over the New at the head of
\* `pending` and gets Ok
NewSucceeds ==
    /\ pc = "replay" /\ pending # <<>> /\ pending' = Tail(pending)
    /\ Head(pending).kind = "New"
    /\ ret'.op = "patch" /\ ret'.res.err = "Ok"

\* C23: effect of a successful patch(New{entity, parent}).  Every entity of
\* the subtree is registered in last_state at a fresh arena index; with
\* parent None the index of the subtree's root is appended to
\* last_root_indexes; with parent Some(p) it is appended at the end of p's
\* children_indexes, its parent_index is p's index and last_root_indexes is
\* unchanged.
C23_NewEffect ==
    [][NewSucceeds =>
          LET op      == Head(pending)
              listing == BreadthFirst(<<op.entity>>)
              before  == Len(diffable_arena)
              root    == last_state'[name_key(op.entity)]
          IN  /\ Len(diffable_arena') = before + Len(listing)
              /\ \A k \in 1..Len(listing) :
                     /\ name_key(listing[k]) \in DOMAIN last_state'
                     /\ last_state'[name_key(listing[k])] >= before
                     /\ InArena(diffable_arena', last_state'[name_key(listing[k])])
                     /\ Get(diffable_arena', last_state'[name_key(listing[k])]).entity
                            = listing[k]
              /\ \A j, k \in 1..Len(listing) :
                     j # k => last_state'[name_key(listing[j])]
                                  # last_state'[name_key(listing[k])]
              /\ IF op.parent = None
                 THEN /\ last_root_indexes' = Append(last_root_indexes, root)
                      /\ Get(diffable_arena', root).parent_index = None
                 ELSE LET p == last_state[make_name_key(op.parent[1][1],
                                                        op.parent[1][2])]
                      IN  /\ Get(diffable_arena', p).children_indexes =
                                 Append(Get(diffable_arena, p).children_indexes, root)
                          /\ Get(diffable_arena', root).parent_index = Some(p)
                          /\ last_root_indexes' = last_root_indexes]_vars

\* a patch(New) has put a node behind an older child of its parent: a last
\* node has two children, the second one created after both loads
C23_Witness ==
    /\ pc = "replay" /\ ret.op = "patch" /\ ret.res.err = "Ok"
    /\ \E id \in DOMAIN last_state :
          LET kids == Get(diffable_arena, last_state[id]).children_indexes
          IN  /\ Len(kids) = 2
              /\ kids[1] < Size(inL)
              /\ kids[2] >= Size(inL) + Size(inC)

\* C24: identity_key depends only on type_name, role, attrs taken as a map
\* and extras taken as a sequence.  Two entities that agree on these four
\* have equal identity_key whatever their name, their children and the order
\* in which their attrs maps yield the keys, and that key is the one stored
\* in a Diffable; two entities of equal (name, role) have equal name_key.
C24_KeysDependOn ==
    ret.op = "keys" =>
        LET e1 == inL[1]
            e2 == inC[1]
        IN  /\ (/\ e1.type_name = e2.type_name /\ e1.role = e2.role
                /\ e1.attrs = e2.attrs /\ e1.extras = e2.extras)
                   => ret.identity_keys[1] = ret.identity_keys[2]
            /\ ret.identity_keys = <<identity_key(e1), identity_key(e2)>>
            /\ (e1.name = e2.name /\ e1.role = e2.role)
                   => ret.name_keys[1] = ret.name_keys[2]

\* two entities of equal type_name, role, attrs and extras, of different
\* names, one with a child, whose two-key maps yield the keys in opposite
\* orders
C24_Witness ==
    /\ ret.op = "keys"
    /\ ContentOf(inL[1]) = ContentOf(inC[1]) /\ inL[1].role = inC[1].role
    /\ inL[1].name # inC[1].name
    /\ inC[1].children # <<>>
    /\ Len(pending[1]) = 2 /\ pending[1] # pending[2]

\* every entity of a forest as its id together with the ids of its ancestors
RECURSIVE WithAncestors(_, _)
WithAncestors(forest, above) ==
    UNION {{[id |-> name_key(forest[i]), above |-> above]}
           \cup WithAncestors(forest[i].children, above \cup {name_key(forest[i])})
           : i \in 1..Len(forest)}

\* the ids the Delete patches of the last diff() name
DeletedIds == {PatchSubject(ret.patches[i]) : i \in PatchesOfKind("Delete")}

\* C25: Delete completeness.  After two forests were loaded, for every entity
\* registered in last_state whose (name, role) is not registered in
\* current_state, the diff() output holds a Delete for that entity or for one
\* of its ancestors in the last tree, wherever its parent has gone in the
\* current tree.
C25_DeleteComplete ==
    AfterFirstDiff =>
        \A n \in WithAncestors(inL, {}) :
            n.id \notin IdsOf(inC) => (({n.id} \cup n.above) \cap DeletedIds) # {}

\* C26: Modify completeness.  For every (name, role) registered in both
\* last_state and current_state whose type_name, attrs or extras differ
\* between the two nodes, the diff() output holds exactly one Modify with that
\* (name, role), wherever the two nodes sit in their trees, also when the
\* current node lies below a node that is new.
C26_ModifyComplete ==
    AfterFirstDiff =>
        \A id \in IdsOf(inL) \cap IdsOf(inC) :
            ContentOf(FindEntity(inL, id)) # ContentOf(FindEntity(inC, id)) =>
                Cardinality({i \in PatchesOfKind("Modify") :
                                PatchSubject(ret.patches[i]) = id}) = 1

\* C27: the entity subtree carried by any New patch of diff() holds no entity
\* whose (name, role) is registered in last_state, so inserting the subtree
\* into last_state cannot collide with an entity that is already there.
C27_NewSubtreeFresh ==
    ret.op = "diff" =>
        \A i \in PatchesOfKind("New") :
            IdsOf(<<ret.patches[i].entity>>) \cap (DOMAIN last_state) = {}

LastReachable ==
    UNION {SubtreeIndexes(diffable_arena, r) : r \in Range(last_root_indexes)}

\* C29: index/tree agreement for the last half.  After any sequence of load
\* and patch calls, successful or failed, the arena indices stored in
\* last_state are exactly the nodes reachable from last_root_indexes through
\* children_indexes, every entry id -> ix of last_state has
\* arena[ix].id = id = name_key(arena[ix].entity), and no two reachable last
\* nodes share a (name, role).
C29_LastIndexAgreement ==
    /\ {last_state[id] : id \in DOMAIN last_state} = LastReachable
    /\ \A id \in DOMAIN last_state :
          /\ InArena(diffable_arena, last_state[id])
          /\ Get(diffable_arena, last_state[id]).id = id
          /\ name_key(Get(diffable_arena, last_state[id]).entity) = id
    /\ \A i, j \in LastReachable :
          LET a == Get(diffable_arena, i).entity
              b == Get(diffable_arena, j).entity
          IN  (a.name = b.name /\ a.role = b.role) => i = j

\* a full arena after a failed patch: a last node renamed to b/c is registered
\* under its new id below its parent, and another last node was deleted and
\* is neither registered nor reachable
C29_Witness ==
    /\ ret.op = "patch" /\ ret.res.err # "Ok"
    /\ Len(diffable_arena) = MaxArena
    /\ make_name_key("b", "c") \in DOMAIN last_state
    /\ Get(diffable_arena, last_state[make_name_key("b", "c")]).parent_index # None
    /\ \E ix \in 0..(Len(diffable_arena) - 1) :
          /\ ix \notin LastReachable
          /\ ix \notin {current_state[id] : id \in DOMAIN current_state}

\* the places where index ix is listed: position i of the last root list (0),
\* of the current root list (1), or of the children of node p (p + 2)
LinkPlaces(ix) ==
    {<<0, i>> : i \in {k \in 1..Len(last_root_indexes) : last_root_indexes[k] = ix}}
    \cup
    {<<1, i>> : i \in {k \in 1..Len(current_root_indexes) :
                          current_root_indexes[k] = ix}}
    \cup
    UNION {{<<p + 2, i>> :
               i \in {k \in 1..Len(Get(diffable_arena, p).children_indexes) :
                         Get(diffable_arena, p).children_indexes[k] = ix}} :
           p \in 0..(Len(diffable_arena) - 1)}

\* C30: the links form a forest.  In every reachable state each index in a
\* node p's children_indexes is greater than p's index and belongs to a node
\* whose parent_index is p, each index in a root list belongs to a node with
\* parent_index = None, and no index occurs twice in, or in two of, the root
\* lists and children_indexes lists.
C30_LinksFormForest ==
    /\ \A p \in 0..(Len(diffable_arena) - 1) :
          /\ Get(diffable_arena, p).index = p
          /\ \A c \in Range(Get(diffable_arena, p).children_indexes) :
                /\ c > p
                /\ InArena(diffable_arena, c)
                /\ Get(diffable_arena, c).parent_index = Some(p)
    /\ \A r \in Range(last_root_indexes) \cup Range(current_root_indexes) :
          /\ InArena(diffable_arena, r)
          /\ Get(diffable_arena, r).parent_index = None
    /\ \A ix \in 0..(Len(diffable_arena) - 1) : Cardinality(LinkPlaces(ix)) <= 1

\* after a successful patch both root lists are in use and the arena is full:
\* one node is a child listed under its parent, and the walks of a diff()
\* over these links return
C30_Witness ==
    /\ ret.op = "patch" /\ ret.res.err = "Ok"
    /\ Len(diffable_arena) = MaxArena
    /\ last_root_indexes # <<>> /\ current_root_indexes # <<>>
    /\ \E p \in 0..(Len(diffable_arena) - 1) :
          Get(diffable_arena, p).children_indexes # <<>>
    /\ diff(E).res.err = "Ok"

\* the arena indices reachable from current_root_indexes along children_indexes
CurrentReachable ==
    UNION {SubtreeIndexes(diffable_arena, r) : r \in Range(current_root_indexes)}

\* the arena nodes of each snapshot: registered in its map or reachable from
\* its root list
LastNodes == {last_state[id] : id \in DOMAIN last_state} \cup LastReachable
CurrentNodes == {current_state[id] : id \in DOMAIN current_state} \cup CurrentReachable

\* C31: the two snapshots never share an arena node.  In every reachable state
\* no arena index is stored in last_state or reachable from last_root_indexes
\* and also stored in current_state or reachable from current_root_indexes,
\* also when the same (name, role) is present in both.
C31_SnapshotsDisjoint == LastNodes \cap CurrentNodes = {}

\* after a successful patch one (name, role) is registered in both states, at
\* two arena slots, and the last half has a node below a parent
C31_Witness ==
    /\ ret.op = "patch" /\ ret.res.err = "Ok"
    /\ \E id \in SharedIds : last_state[id] # current_state[id]
    /\ \E ix \in LastReachable : Get(diffable_arena, ix).parent_index # None
    /\ CurrentNodes # {}

\* the positions of the diff() output whose patch is about `id`
PatchesAbout(id) == {i \in 1..Len(ret.patches) : PatchSubject(ret.patches[i]) = id}

\* C32: no entity is the subject of two patches.  In any diff() output each
\* (name, role) is the subject of at most one patch (the name and role of a
\* Delete or Modify, the entity at the root of a New), so none is both deleted
\* and created, or both modified and deleted.
C32_OneSubjectOnce ==
    (ret.op = "diff" /\ ret.res.err = "Ok") =>
        \A i, j \in 1..Len(ret.patches) :
            PatchSubject(ret.patches[i]) = PatchSubject(ret.patches[j]) => i = j

\* a diff() output of three patches: a New, a Modify and a Delete
C32_Witness ==
    /\ ret.op = "diff" /\ ret.res.err = "Ok"
    /\ PatchesOfKind("New") # {}
    /\ PatchesOfKind("Modify") # {}
    /\ PatchesOfKind("Delete") # {}
    /\ Len(ret.patches) = 3

\* C33: for every current node that diff() visits and whose id is in
\* last_state, exactly one Modify is emitted for it when its identity_key
\* differs from the matched last node's and none when it is equal, and in
\* both cases its children are compared with the matched node's children: a
\* new child gets its New under the node, a changed matched child its Modify,
\* a child of the matched last node that the current forest lacks its Delete,
\* so a change below an unchanged node gives a Modify for the descendant only.
C33_ModifyThenRecurse ==
    AfterFirstDiff =>
        \A v \in VisitedCurrent(inC, None) :
            name_key(v.ent) \in IdsOf(inL) =>
                LET l == FindEntity(inL, name_key(v.ent))
                IN  /\ Cardinality({i \in PatchesOfKind("Modify") :
                                       i \in PatchesAbout(name_key(v.ent))})
                           = IF identity_key(v.ent) # identity_key(l) THEN 1 ELSE 0
                    /\ \A k \in 1..Len(v.ent.children) :
                          LET c == v.ent.children[k]
                          IN  IF name_key(c) \in IdsOf(inL)
                              THEN identity_key(c)
                                       # identity_key(FindEntity(inL, name_key(c)))
                                   => \E i \in PatchesOfKind("Modify") :
                                          i \in PatchesAbout(name_key(c))
                              ELSE \E i \in PatchesOfKind("New") :
                                      ret.patches[i] =
                                          PatchNew(c, Some(<<v.ent.name, v.ent.role>>))
                    /\ \A k \in 1..Len(l.children) :
                          name_key(l.children[k]) \notin IdsOf(inC) =>
                              \E i \in PatchesOfKind("Delete") :
                                  i \in PatchesAbout(name_key(l.children[k]))

\* a root with a child and a grandchild on both sides, the root changed, the
\* child unchanged, the grandchild changed: the output is the Modify of the
\* root and the Modify of the grandchild
C33_Witness ==
    /\ AfterFirstDiff /\ ret.op = "diff"
    /\ Len(inL) = 1 /\ Len(inC) = 1
    /\ Len(inL[1].children) = 1 /\ Len(inC[1].children) = 1
    /\ Len(inL[1].children[1].children) = 1 /\ Len(inC[1].children[1].children) = 1
    /\ name_key(inL[1]) = name_key(inC[1])
    /\ name_key(inL[1].children[1]) = name_key(inC[1].children[1])
    /\ identity_key(inL[1]) # identity_key(inC[1])
    /\ identity_key(inL[1].children[1]) = identity_key(inC[1].children[1])
    /\ Len(ret.patches) = 2
    /\ PatchesOfKind("Modify") = {1, 2}
    /\ PatchesAbout(name_key(inC[1].children[1].children[1])) = {2}

\* the entities of a forest in breadth-first order, each with its children
RECURSIVE BreadthFirstWhole(_)
BreadthFirstWhole(queue) ==
    IF queue = <<>> THEN <<>>
    ELSE <<Head(queue)>> \o BreadthFirstWhole(Tail(queue) \o Head(queue).children)

\* an entity without its children, as a node stores it
Childless(ent) == [ent EXCEPT !.children = <<>>]

\* C34: load flattens breadth-first and keeps the tree.  After a successful
\* load of a forest into an empty engine the arena holds one node per entity,
\* indices follow the breadth-first order (the roots first, in forest order),
\* the target map has one entry per entity, the target root list holds the
\* root indices in forest order, and each node's children_indexes lists its
\* children in their original order, each child's parent_index being the
\* node's index.
C34_LoadBreadthFirst ==
    (pc = "load_current" /\ ret.res.err = "Ok") =>
        LET whole == BreadthFirstWhole(inL)
            n     == Len(whole)
        IN  /\ Len(diffable_arena) = n
            /\ \A i \in 1..n :
                  /\ diffable_arena[i].entity = Childless(whole[i])
                  /\ diffable_arena[i].index = i - 1
                  /\ last_state[name_key(whole[i])] = i - 1
                  /\ Len(diffable_arena[i].children_indexes) = Len(whole[i].children)
                  /\ \A k \in 1..Len(whole[i].children) :
                        LET child == Get(diffable_arena,
                                         diffable_arena[i].children_indexes[k])
                        IN  /\ child.entity = Childless(whole[i].children[k])
                            /\ child.parent_index = Some(i - 1)
            /\ Cardinality(DOMAIN last_state) = n
            /\ last_root_indexes = [r \in 1..Len(inL) |-> r - 1]
            /\ \A r \in 1..Len(inL) :
                  /\ diffable_arena[r].entity = Childless(inL[r])
                  /\ diffable_arena[r].parent_index = None
            /\ DOMAIN current_state = {} /\ current_root_indexes = <<>>

\* a forest of two roots, the first with a child, was loaded into the empty
\* engine: the second root took index 1 and the child index 2
C34_Witness ==
    /\ pc = "load_current" /\ ret.op = "load_last_state" /\ ret.res.err = "Ok"
    /\ Len(inL) = 2 /\ Len(inL[1].children) = 1
    /\ Len(diffable_arena) = 3
    /\ diffable_arena[2].parent_index = None
    /\ diffable_arena[3].parent_index = Some(0)
    /\ diffable_arena[1].children_indexes = <<2>>

\* the arena nodes that existed before the step are unchanged by it
ArenaKept ==
    /\ Len(diffable_arena') >= Len(diffable_arena)
    /\ SubSeq(diffable_arena', 1, Len(diffable_arena)) = diffable_arena

\* C35: loading one snapshot leaves the other alone.  load_current_state,
\* successful or failed, leaves last_state, last_root_indexes and every arena
\* node that existed before the call unchanged; load_last_state leaves
\* current_state, current_root_indexes and the existing arena nodes unchanged.
C35_LoadFrame ==
    [][/\ ret'.op = "load_current_state" =>
              /\ last_state' = last_state
              /\ last_root_indexes' = last_root_indexes
              /\ ArenaKept
       /\ ret'.op = "load_last_state" =>
              /\ current_state' = current_state
              /\ current_root_indexes' = current_root_indexes
              /\ ArenaKept]_vars

\* load_current_state failed on an engine with both halves in use, where the
\* last half has a renamed node
C35_Witness ==
    /\ ret.op = "load_current_state" /\ ret.res.err = "DuplicateEntity"
    /\ DOMAIN current_state # {}
    /\ make_name_key("b", "c") \in DOMAIN last_state
    /\ last_root_indexes # <<>>

\* how many times x occurs in a sequence
Occurrences(seq, x) == Cardinality({i \in 1..Len(seq) : seq[i] = x})

\* the loaded pair a/t has equal type_name and attrs, and extras that hold
\* the same strings as often in another order
ExtrasReordered ==
    /\ inL[1].type_name = inC[1].type_name
    /\ inL[1].attrs = inC[1].attrs
    /\ inL[1].extras # inC[1].extras
    /\ Len(inL[1].extras) = Len(inC[1].extras)
    /\ \A x \in Range(inL[1].extras) \cup Range(inC[1].extras) :
          Occurrences(inL[1].extras, x) = Occurrences(inC[1].extras, x)

\* C36: the order of extras is significant.  When a matched pair differs only
\* in the order of its extras, diff() emits exactly one Modify for it, with
\* empty modifications, empty deletions, new_type_name = None and extras
\* equal to the current node's extras.
C36_ExtrasOrderMatters ==
    (AfterFirstDiff /\ ExtrasReordered) =>
        /\ ret.res.err = "Ok"
        /\ Len(ret.patches) = 1
        /\ ret.patches[1].kind = "Modify"
        /\ ret.patches[1].name = inL[1].name /\ ret.patches[1].role = inL[1].role
        /\ ret.patches[1].new_name = None
        /\ ret.patches[1].new_type_name = None
        /\ DOMAIN ret.patches[1].modifications = {}
        /\ ret.patches[1].deletions = {}
        /\ ret.patches[1].extras = inC[1].extras

\* the pair was loaded with attrs on both sides and the extras e, f against
\* f, e, and diff() has returned
C36_Witness ==
    /\ AfterFirstDiff /\ ret.op = "diff"
    /\ ExtrasReordered
    /\ inL[1].extras = <<"e", "f">> /\ inC[1].extras = <<"f", "e">>
    /\ DOMAIN inC[1].attrs = {"j", "k"}

====
